---- MODULE Spec2Model ----
(***************************************************************************)
(* Model of "imported", a utility that analyses JavaScript import          *)
(* dependencies: the Searcher class (existence cache, path resolver,       *)
(* import extractor, graph queries) and the ls-dependencies /              *)
(* ls-dependants command handlers.                                         *)
(*                                                                         *)
(* Paths and specifiers are JavaScript strings.  A string is modelled by   *)
(* its structure: a sequence of segments (the pieces between "/"), each    *)
(* segment a non-empty sequence of parts (the pieces between ".").         *)
(*   "app/Foo.js"  is  << <<"app">>, <<"Foo","js">> >>                     *)
(*   "./Foo"       is  << <<"","">>, <<"Foo">> >>                          *)
(*   ""            is  << <<"">> >>                                        *)
(* Two strings are equal iff their structures are equal.                   *)
(***************************************************************************)
EXTENDS Integers, Sequences, FiniteSets, TLC

VARIABLES
  files,       \* the regular files on disk (a set of paths)
  denied,      \* paths whose stat fails with a permission error
  text,        \* the source text of every module file, as the parser sees it
  filecache,   \* Searcher.filecache: Map from path to boolean
  statCalls,   \* number of fs.statSync calls made so far, per path
  calls,       \* the fileExists / resolveImportPath calls made so far, with results
  pc,          \* position of the process
  cmd,         \* the command being run and its arguments
  fileIdx,     \* position of the loop over the modules of the command
  stack,       \* active getImports calls, innermost last
  imports,     \* the accumulator Set of the current top-level getImports call
  importPaths, \* the Set built by getAllImports
  dependants,  \* the array built by listDependants
  parsed,      \* files read and parsed by the current top-level getImports call
  stdout,      \* lines written with console.log
  stderr       \* diagnostics written with console.error

vars == <<files, denied, text, filecache, statCalls, calls, pc, cmd, fileIdx,
          stack, imports, importPaths, dependants, parsed, stdout, stderr>>

diskVars == <<files, denied, text>>
cacheVars == <<filecache, statCalls>>
queryVars == <<cmd, fileIdx, stack, imports, importPaths, dependants, parsed,
               stdout, stderr>>

(***************************************************************************)
(* Bounds of the model.                                                    *)
(***************************************************************************)
MaxFiles == 2   \* files on disk in the resolver specification
MaxCalls == 2   \* resolver calls per run in the resolver specification
MaxGlob == 2    \* paths the glob matcher hands to one command
MaxDepth == 6   \* nested getImports calls

(***************************************************************************)
(* Program constants.                                                      *)
(***************************************************************************)
MODULE_EXTENSIONS == <<"js", "jsx", "ts", "tsx">>
RESOLVE_DIRS == << << <<"app">> >>, << <<"packages">> >> >>
RESOLVE_EXTENSIONS == <<"js", "jsx", "ts", "tsx", "json">>

\* The value `undefined`; no string has this structure.
Undefined == << >>

\* No command has been given.
NoCommand == [name |-> "none", impl |-> "none", follow |-> FALSE, file |-> Undefined,
              modules |-> << >>]

(***************************************************************************)
(* Strings and node's path module.                                         *)
(***************************************************************************)
EmptySeg == <<"">>          \* the empty piece of "a//b", or the string ""
DotSeg == <<"", "">>        \* "."
DotDotSeg == <<"", "", "">> \* ".."

Last(s) == s[Len(s)]
Front(s) == SubSeq(s, 1, Len(s) - 1)

\* String.prototype.startsWith(".")
StartsWithDot(str) == Len(str[1]) >= 2 /\ str[1][1] = ""

\* `${importPath}.${extension}`
WithExtension(importPath, extension) ==
  Append(Front(importPath), Append(Last(importPath), extension))

\* path.normalize on a relative path: drops empty and "." segments and
\* resolves ".." against the segment before it.
RECURSIVE NormalizeFrom(_, _, _)
NormalizeFrom(str, i, acc) ==
  IF i > Len(str) THEN acc
  ELSE LET seg == str[i] IN
       IF seg = EmptySeg \/ seg = DotSeg THEN NormalizeFrom(str, i + 1, acc)
       ELSE IF seg = DotDotSeg /\ acc # << >> /\ Last(acc) # DotDotSeg
            THEN NormalizeFrom(str, i + 1, Front(acc))
       ELSE NormalizeFrom(str, i + 1, Append(acc, seg))

\* path.join(a, b): the pieces joined with "/" and normalized; "." when
\* nothing is left.
PathJoin(a, b) ==
  LET n == NormalizeFrom(a \o b, 1, << >>) IN
  IF n = << >> THEN <<DotSeg>> ELSE n

\* path.dirname of a relative path without a trailing slash
PathDirname(filename) ==
  IF Len(filename) <= 1 THEN <<DotSeg>> ELSE Front(filename)

\* path.extname without its leading dot, NoExt when path.extname returns "":
\* the basename has no dot, or its only dot is its first character, or it
\* is "..".
NoExt == "<none>"
PathExtname(filename) ==
  LET base == Last(filename) IN
  IF Len(base) = 1 THEN NoExt
  ELSE IF Len(base) = 2 /\ base[1] = "" THEN NoExt
  ELSE IF base = DotDotSeg THEN NoExt
  ELSE Last(base)

InSeq(x, s) == \E i \in 1..Len(s) : s[i] = x

IsModuleFile(filename) == InSeq(PathExtname(filename), MODULE_EXTENSIONS)

(***************************************************************************)
(* The disk as fs.statSync sees it.                                        *)
(***************************************************************************)
IsPrefix(d, f) == Len(d) < Len(f) /\ SubSeq(f, 1, Len(d)) = d

IsDirectory(p) == p = <<DotSeg>> \/ \E f \in files : IsPrefix(p, f)

\* fs.statSync(filename): the kind of the entry, or the error thrown
Stat(filename) ==
  IF filename \in denied THEN "EACCES"
  ELSE IF filename \in files THEN "file"
  ELSE IF IsDirectory(filename) THEN "directory"
  ELSE "ENOENT"

(***************************************************************************)
(* Existence cache.  A cache state is the pair of the Map and of the       *)
(* count of stat calls; fileExists returns its result and the new state.   *)
(***************************************************************************)
EmptyMap == [p \in {} |-> FALSE]

MapSet(m, k, v) == [p \in DOMAIN m \cup {k} |-> IF p = k THEN v ELSE m[p]]

Count(m, k) == IF k \in DOMAIN m THEN m[k] ELSE 0

\* fileExists trusting only the true entries of the cache.
fileExistsTruthyOnly(st, filename) ==
  IF filename \in DOMAIN st.cache /\ st.cache[filename]
  THEN [exists |-> TRUE, st |-> st]
  ELSE LET exists == (Stat(filename) = "file") IN
       [exists |-> exists,
        st |-> [cache |-> MapSet(st.cache, filename, exists),
                stats |-> MapSet(st.stats, filename, Count(st.stats, filename) + 1)]]

fileExists(st, filename) ==
  IF filename \in DOMAIN st.cache
  THEN [exists |-> st.cache[filename], st |-> st]
  ELSE LET exists == (Stat(filename) = "file") IN
       [exists |-> exists,
        st |-> [cache |-> MapSet(st.cache, filename, exists),
                stats |-> MapSet(st.stats, filename, Count(st.stats, filename) + 1)]]

(***************************************************************************)
(* Path resolver.                                                          *)
(***************************************************************************)
\* (In the operators below a result that is used more than once is bound
\* with \in: CHOOSE v \in { e(r) : r \in {call} } : TRUE is e(call) with call
\* evaluated once.)

\* The loop over RESOLVE_EXTENSIONS of resolveRelativeImportPath, from the
\* i-th extension on.
RECURSIVE ResolveExtensionsFrom(_, _, _, _)
ResolveExtensionsFrom(st, directory, importPath, i) ==
  IF i > Len(RESOLVE_EXTENSIONS) THEN [result |-> Undefined, st |-> st]
  ELSE LET extension == RESOLVE_EXTENSIONS[i]
           resolvedWithExtension == PathJoin(directory, WithExtension(importPath, extension))
           resolvedIndex == PathJoin(directory, importPath \o << <<"index", extension>> >>)
       IN CHOOSE v \in {
            IF r1.exists THEN [result |-> resolvedWithExtension, st |-> r1.st]
            ELSE CHOOSE w \in {
                   IF r2.exists THEN [result |-> resolvedIndex, st |-> r2.st]
                   ELSE ResolveExtensionsFrom(r2.st, directory, importPath, i + 1)
                   : r2 \in {fileExists(r1.st, resolvedIndex)} } : TRUE
            : r1 \in {fileExists(st, resolvedWithExtension)} } : TRUE

resolveRelativeImportPath(st, directory, importPath) ==
  LET resolvedExact == PathJoin(directory, importPath) IN
  CHOOSE v \in {
    IF r.exists THEN [result |-> resolvedExact, st |-> r.st]
    ELSE ResolveExtensionsFrom(r.st, directory, importPath, 1)
    : r \in {fileExists(st, resolvedExact)} } : TRUE

\* The loop over RESOLVE_DIRS of resolveImportPath, from the i-th directory on.
RECURSIVE ResolveDirsFrom(_, _, _)
ResolveDirsFrom(st, importPath, i) ==
  IF i > Len(RESOLVE_DIRS) THEN [result |-> Undefined, st |-> st]
  ELSE CHOOSE v \in {
         IF r.result # Undefined THEN r
         ELSE ResolveDirsFrom(r.st, importPath, i + 1)
         : r \in {resolveRelativeImportPath(st, RESOLVE_DIRS[i], importPath)} } : TRUE

\* resolveImportPath falling through to the rooted directories when a relative
\* specifier is not found next to the importing file.
resolveImportPathFallThrough(st, filename, importPath) ==
  IF StartsWithDot(importPath)
  THEN CHOOSE v \in {
         IF r.result # Undefined THEN r ELSE ResolveDirsFrom(r.st, importPath, 1)
         : r \in {resolveRelativeImportPath(st, PathDirname(filename), importPath)} } : TRUE
  ELSE ResolveDirsFrom(st, importPath, 1)

resolveImportPath(st, filename, importPath) ==
  IF StartsWithDot(importPath)
  THEN resolveRelativeImportPath(st, PathDirname(filename), importPath)
  ELSE ResolveDirsFrom(st, importPath, 1)

CacheState == [cache |-> filecache, stats |-> statCalls]

(***************************************************************************)
(* Resolver specification: a Searcher answers resolveImportPath calls      *)
(* over a disk that does not change.                                       *)
(***************************************************************************)
Foo == << <<"Foo">> >>
ResolveImporter == << <<"app">>, <<"x">>, <<"main", "js">> >>
ResolveSpecifiers == { Foo, <<DotSeg>> \o Foo, <<DotDotSeg>> \o Foo }
ResolveRoots == { PathDirname(ResolveImporter), PathDirname(PathDirname(ResolveImporter)),
                  RESOLVE_DIRS[1], RESOLVE_DIRS[2] }

\* The paths resolveRelativeImportPath probes for one directory, in the
\* order of its statements.
Candidates(directory, importPath) ==
  <<PathJoin(directory, importPath)>> \o
  [k \in 1..(2 * Len(RESOLVE_EXTENSIONS)) |->
     LET extension == RESOLVE_EXTENSIONS[(k + 1) \div 2] IN
     IF k % 2 = 1
     THEN PathJoin(directory, WithExtension(importPath, extension))
     ELSE PathJoin(directory, importPath \o << <<"index", extension>> >>)]

SeqRange(s) == { s[i] : i \in 1..Len(s) }

ResolveUniverse == UNION { SeqRange(Candidates(d, Foo)) : d \in ResolveRoots }

RECURSIVE SubsetsUpTo(_, _)
SubsetsUpTo(U, k) ==
  IF k = 0 THEN { {} }
  ELSE LET smaller == SubsetsUpTo(U, k - 1) IN
       smaller \cup { S \cup {x} : S \in smaller, x \in U }

\* No path is both a regular file and a directory.
ConsistentDisk(F) == \A f \in F, g \in F : ~IsPrefix(f, g)

InitResolve ==
  /\ files \in { {ResolveImporter} \cup S : S \in SubsetsUpTo(ResolveUniverse, MaxFiles) }
  /\ ConsistentDisk(files)
  /\ denied = {}
  /\ text = EmptyMap
  /\ filecache = EmptyMap
  /\ statCalls = EmptyMap
  /\ calls = << >>
  /\ pc = "resolver"
  /\ cmd = NoCommand
  /\ fileIdx = 0
  /\ stack = << >>
  /\ imports = << >>
  /\ importPaths = << >>
  /\ dependants = << >>
  /\ parsed = << >>
  /\ stdout = << >>
  /\ stderr = << >>

\* One call of Searcher.resolveImportPath(filename, importPath).
ResolveImportPathCall(filename, importPath) ==
  /\ pc = "resolver"
  /\ Len(calls) < MaxCalls
  /\ \E r \in {resolveImportPath(CacheState, filename, importPath)} :
     /\ filecache' = r.st.cache
     /\ statCalls' = r.st.stats
     /\ calls' = Append(calls, [fn |-> "resolveImportPath", filename |-> filename,
                                importPath |-> importPath, result |-> r.result,
                                probed |-> DOMAIN r.st.cache \ DOMAIN filecache])
  /\ UNCHANGED <<diskVars, pc, queryVars>>

NextResolve ==
  \E importPath \in ResolveSpecifiers : ResolveImportPathCall(ResolveImporter, importPath)

SpecResolve == InitResolve /\ [][NextResolve]_vars

(***************************************************************************)
(* Claims about the path resolver (checked under SpecResolve).             *)
(***************************************************************************)
\* The first element of a sequence of paths that is a regular file on disk.
RECURSIVE FirstExistingFrom(_, _)
FirstExistingFrom(s, i) ==
  IF i > Len(s) THEN Undefined
  ELSE IF s[i] \in files THEN s[i]
  ELSE FirstExistingFrom(s, i + 1)

FirstExisting(s) == FirstExistingFrom(s, 1)

\* The order stated for one search root: the exact path, then every
\* extension-inferred path, then every index-convention path.
StatedOrder(directory, importPath) ==
  <<PathJoin(directory, importPath)>> \o
  [k \in 1..Len(RESOLVE_EXTENSIONS) |->
     PathJoin(directory, WithExtension(importPath, RESOLVE_EXTENSIONS[k]))] \o
  [k \in 1..Len(RESOLVE_EXTENSIONS) |->
     PathJoin(directory, importPath \o << <<"index", RESOLVE_EXTENSIONS[k]>> >>)]

IsRelativeCall(c) == c.fn = "resolveImportPath" /\ StartsWithDot(c.importPath)
IsRootedCall(c) == c.fn = "resolveImportPath" /\ ~StartsWithDot(c.importPath)

\* C1: within one search root, resolve returns the first existing candidate
\* in the order exact, then root/specifier.<ext> for every extension, then
\* root/specifier/index.<ext> for every extension; so every
\* extension-inferred candidate beats every index-convention candidate.
C1_StatedPriority ==
  \A i \in 1..Len(calls) :
    LET c == calls[i] IN
    /\ IsRelativeCall(c) =>
         c.result = FirstExisting(StatedOrder(PathDirname(c.filename), c.importPath))
    /\ IsRootedCall(c) =>
         c.result = LET inApp == FirstExisting(StatedOrder(RESOLVE_DIRS[1], c.importPath)) IN
                    IF inApp # Undefined THEN inApp
                    ELSE FirstExisting(StatedOrder(RESOLVE_DIRS[2], c.importPath))

\* C2: a specifier starting with "." is searched only in the directory of the
\* importing file and is not found when nothing matches there; any other
\* specifier is searched in app, then packages, every candidate of app
\* before any candidate of packages, and is not found only if neither has a
\* match.
C2_SearchRoots ==
  \A i \in 1..Len(calls) :
    LET c == calls[i]
        own == Candidates(PathDirname(c.filename), c.importPath)
        inApp == Candidates(RESOLVE_DIRS[1], c.importPath)
        inPackages == Candidates(RESOLVE_DIRS[2], c.importPath)
    IN /\ IsRelativeCall(c) =>
            /\ c.result = FirstExisting(own)
            /\ c.probed \subseteq SeqRange(own)
       /\ IsRootedCall(c) =>
            /\ c.result = FirstExisting(inApp \o inPackages)
            /\ c.probed \subseteq SeqRange(inApp) \cup SeqRange(inPackages)
            /\ c.result \in SeqRange(inApp) => c.probed \cap SeqRange(inPackages) = {}
            /\ c.probed \cap SeqRange(inPackages) # {} =>
                 \A q \in SeqRange(inApp) : q \in DOMAIN filecache /\ ~filecache[q]

\* A relative specifier was not found although a rooted directory has a file
\* of that name, and a rooted specifier was found in packages.
C2_Witness ==
  \E i \in 1..Len(calls), j \in 1..Len(calls) :
    /\ IsRelativeCall(calls[i])
    /\ calls[i].result = Undefined
    /\ files \cap (SeqRange(Candidates(RESOLVE_DIRS[1], Foo))
                   \cup SeqRange(Candidates(RESOLVE_DIRS[2], Foo))) # {}
    /\ IsRootedCall(calls[j])
    /\ calls[j].result \in SeqRange(Candidates(RESOLVE_DIRS[2], calls[j].importPath))

(***************************************************************************)
(* Cache specification: a Searcher answers fileExists calls while the      *)
(* disk changes under it.                                                  *)
(***************************************************************************)
CacheFile == << <<"app">>, <<"a", "js">> >>
CacheOther == << <<"app">>, <<"b">>, <<"index", "js">> >>
CacheCreatable == { CacheFile, CacheOther, PathDirname(CacheOther) }
CachePaths == CacheCreatable \cup { PathDirname(CacheFile) }

InitCache ==
  /\ files \in SUBSET CacheCreatable
  /\ ConsistentDisk(files)
  /\ denied = {}
  /\ text = EmptyMap
  /\ filecache = EmptyMap
  /\ statCalls = EmptyMap
  /\ calls = << >>
  /\ pc = "cache"
  /\ cmd = NoCommand
  /\ fileIdx = 0
  /\ stack = << >>
  /\ imports = << >>
  /\ importPaths = << >>
  /\ dependants = << >>
  /\ parsed = << >>
  /\ stdout = << >>
  /\ stderr = << >>

\* One call of Searcher.fileExists(filename).
FileExistsCall(filename) ==
  /\ pc = "cache"
  /\ Len(calls) < MaxCalls
  /\ \E r \in {fileExists(CacheState, filename)} :
     /\ filecache' = r.st.cache
     /\ statCalls' = r.st.stats
     /\ calls' = Append(calls, [fn |-> "fileExists", filename |-> filename,
                                result |-> r.exists])
  /\ UNCHANGED <<diskVars, pc, queryVars>>

\* The environment creates a regular file.
CreateFile(p) ==
  /\ pc = "cache"
  /\ p \notin files
  /\ ConsistentDisk(files \cup {p})
  /\ files' = files \cup {p}
  /\ UNCHANGED <<denied, text, cacheVars, calls, pc, queryVars>>

\* The environment removes a regular file.
RemoveFile(p) ==
  /\ pc = "cache"
  /\ p \in files
  /\ files' = files \ {p}
  /\ UNCHANGED <<denied, text, cacheVars, calls, pc, queryVars>>

\* The environment revokes or restores the permission to stat a path.
ToggleAccess(p) ==
  /\ pc = "cache"
  /\ denied' = IF p \in denied THEN denied \ {p} ELSE denied \cup {p}
  /\ UNCHANGED <<files, text, cacheVars, calls, pc, queryVars>>

NextCache ==
  \/ \E p \in CachePaths : FileExistsCall(p)
  \/ \E p \in CacheCreatable : CreateFile(p)
  \/ \E p \in CacheCreatable : RemoveFile(p)
  \/ ToggleAccess(CacheFile)

SpecCache == InitCache /\ [][NextCache]_vars

(***************************************************************************)
(* Claims about the existence cache (checked under SpecCache).             *)
(***************************************************************************)
C6_OncePerPath ==
  /\ \A p \in DOMAIN statCalls : statCalls[p] = 1
  /\ DOMAIN statCalls = DOMAIN filecache
  /\ DOMAIN filecache = { calls[i].filename : i \in 1..Len(calls) }
  /\ \A i \in 1..Len(calls) : calls[i].result = filecache[calls[i].filename]

C6_EntriesKept ==
  \A p \in DOMAIN filecache : p \in DOMAIN filecache' /\ filecache'[p] = filecache[p]

\* C6: the filesystem is consulted exactly once per distinct path, on the
\* first call; every later call with the same path returns the value
\* memoized by the first one, also a memoized false and also when the file
\* has since been created or removed; an entry is never evicted or changed.
C6_Memoized == []C6_OncePerPath /\ [][C6_EntriesKept]_vars

\* A path was asked for twice and answered false twice, although it is a
\* regular file by the time of the second answer.
C6_Witness ==
  \E i \in 1..Len(calls), j \in 1..Len(calls) :
    /\ i < j
    /\ calls[i].filename = calls[j].filename
    /\ ~calls[i].result /\ ~calls[j].result
    /\ Stat(calls[j].filename) = "file"
    /\ statCalls[calls[j].filename] = 1

(***************************************************************************)
(* Import extractor (Searcher.getImports) and graph queries.               *)
(*                                                                         *)
(* The parser hands getImports the nodes of a file in document order; a    *)
(* node is [type, sourceType, value]: the visitor it triggers, the type of *)
(* its source node ("null" when it has none) and the value of the source   *)
(* (Undefined when the source is not a string literal).  A source text is  *)
(* [ok, nodes]; ok is FALSE when the file cannot be parsed.                *)
(***************************************************************************)
Node(type, sourceType, value) == [type |-> type, sourceType |-> sourceType, value |-> value]
Literal(type, value) == Node(type, "StringLiteral", value)
Source(nodes) == [ok |-> TRUE, nodes |-> nodes]
Malformed == [ok |-> FALSE, nodes |-> << >>]

Top == stack[Len(stack)]
TopNodes == text[Top.filename].nodes
AtNode(type) ==
  /\ pc = "running"
  /\ stack # << >>
  /\ Top.pos <= Len(TopNodes)
  /\ TopNodes[Top.pos].type = type
TopNode == TopNodes[Top.pos]

\* The frame on top of the stack moved past the node it is at.
Advanced == [stack EXCEPT ![Len(stack)].pos = @ + 1]

ParseError(filename) == [kind |-> "Error while parsing", filename |-> filename]
DynamicImportNotice(filename, sourceType) ==
  [kind |-> "Encountered unexpected dynamic import type", filename |-> filename,
   type |-> sourceType]

\* fs.readFileSync and parse succeed on the file.
Parses(filename) == filename \in files /\ filename \in DOMAIN text /\ text[filename].ok

\* Set.prototype.add on a Set kept in insertion order
SetAdd(set, x) == IF InSeq(x, set) THEN set ELSE Append(set, x)

\* A visitor adding and following every path that resolves, seen or not.
IsNewImportAlways(importPath) == importPath # Undefined

\* The condition under which a visitor adds the resolved path.
IsNewImport(importPath) == importPath # Undefined /\ ~InSeq(importPath, imports)

\* getImports without its guard: every file is read and parsed.
NonModuleGuardOff(filename) == FALSE

\* The guard at the top of getImports: the file is not a module file.
NonModuleGuard(filename) == ~IsModuleFile(filename)

\* A call of getImports up to the start of its traversal, made with the
\* given callers on the stack: the callee returns at once for a non-module
\* file, throws when the file cannot be read or parsed (its own catch block
\* reports it), and starts visiting its nodes otherwise.  log is the list of
\* files parsed so far and returnPc the position after an immediate return.
GetImportsEnter(filename, callers, log, returnPc) ==
  IF NonModuleGuard(filename)
  THEN /\ stack' = callers
       /\ pc' = returnPc
       /\ parsed' = log
       /\ UNCHANGED stderr
  ELSE /\ parsed' = Append(log, filename)
       /\ IF Parses(filename)
          THEN /\ stack' = Append(callers, [filename |-> filename, pos |-> 1])
               /\ pc' = "running"
               /\ UNCHANGED stderr
          ELSE /\ stack' = callers
               /\ pc' = "throwing"
               /\ stderr' = Append(stderr, ParseError(filename))

\* The statements shared by the four visitors once they hold a raw path:
\* resolve it, add it when it is new, and follow it when asked to.
VisitRawPath(rawPath) ==
  \E r \in {resolveImportPath(CacheState, Top.filename, rawPath)} :
  LET importPath == r.result
  IN /\ filecache' = r.st.cache
     /\ statCalls' = r.st.stats
     /\ IF IsNewImport(importPath)
        THEN /\ imports' = Append(imports, importPath)
             /\ IF cmd.follow
                THEN /\ Len(stack) < MaxDepth
                     /\ GetImportsEnter(importPath, Advanced, parsed, "running")
                ELSE /\ stack' = Advanced
                     /\ UNCHANGED <<pc, parsed, stderr>>
        ELSE /\ stack' = Advanced
             /\ UNCHANGED <<imports, pc, parsed, stderr>>
     /\ UNCHANGED <<diskVars, calls, cmd, fileIdx, importPaths, dependants, stdout>>

\* A visitor returning without looking at the path.
VisitSkip ==
  /\ stack' = Advanced
  /\ UNCHANGED <<diskVars, cacheVars, calls, pc, cmd, fileIdx, imports, importPaths,
                 dependants, parsed, stdout, stderr>>

\* The source of the node is missing; an empty value passes.
NoSourceOnly(node) == node.sourceType = "null" \/ node.value = Undefined

\* The source of the node is missing or its value is falsy.
NoSourceValue(node) ==
  node.sourceType = "null" \/ node.value = Undefined \/ node.value = <<EmptySeg>>

ImportDeclaration ==
  /\ AtNode("ImportDeclaration")
  /\ IF NoSourceValue(TopNode) THEN VisitSkip ELSE VisitRawPath(TopNode.value)

ImportExpression ==
  /\ AtNode("ImportExpression")
  /\ IF TopNode.sourceType = "null" THEN VisitSkip
     ELSE IF TopNode.sourceType # "StringLiteral"
     THEN /\ stderr' = Append(stderr, DynamicImportNotice(Top.filename, TopNode.sourceType))
          /\ stack' = Advanced
          /\ UNCHANGED <<diskVars, cacheVars, calls, pc, cmd, fileIdx, imports,
                         importPaths, dependants, parsed, stdout>>
     ELSE VisitRawPath(TopNode.value)

ExportNamedDeclaration ==
  /\ AtNode("ExportNamedDeclaration")
  /\ IF NoSourceValue(TopNode) THEN VisitSkip ELSE VisitRawPath(TopNode.value)

ExportAllDeclaration ==
  /\ AtNode("ExportAllDeclaration")
  /\ IF NoSourceValue(TopNode) THEN VisitSkip ELSE VisitRawPath(TopNode.value)

\* traverse is done with the file on top of the stack: getImports returns
\* imports, to the visitor that called it or to the query that called it.
GetImportsReturn ==
  /\ pc = "running"
  /\ stack # << >>
  /\ Top.pos > Len(TopNodes)
  /\ stack' = Front(stack)
  /\ pc' = IF Len(stack) = 1 THEN "returned" ELSE "running"
  /\ UNCHANGED <<diskVars, cacheVars, calls, cmd, fileIdx, imports, importPaths,
                 dependants, parsed, stdout, stderr>>

\* The catch block of getImports: an error thrown below the call passes
\* through it, is reported with the file of the call and thrown again.
GetImportsCatch ==
  /\ pc = "throwing"
  /\ stack # << >>
  /\ stderr' = Append(stderr, ParseError(Top.filename))
  /\ stack' = Front(stack)
  /\ UNCHANGED <<diskVars, cacheVars, calls, pc, cmd, fileIdx, imports, importPaths,
                 dependants, parsed, stdout>>

\* The error leaves the command handler: the process ends with a failure.
Abort ==
  /\ pc = "throwing"
  /\ stack = << >>
  /\ pc' = "failed"
  /\ UNCHANGED <<diskVars, cacheVars, calls, cmd, fileIdx, stack, imports, importPaths,
                 dependants, parsed, stdout, stderr>>

(***************************************************************************)
(* String order of Array.prototype.sort: by UTF-16 code units.             *)
(***************************************************************************)
CodeUnits(part) ==
  CASE part = "" -> << >>
    [] part = "a" -> <<97>>
    [] part = "b" -> <<98>>
    [] part = "c" -> <<99>>
    [] part = "e" -> <<101>>
    [] part = "app" -> <<97, 112, 112>>
    [] part = "index" -> <<105, 110, 100, 101, 120>>
    [] part = "js" -> <<106, 115>>
    [] part = "ts" -> <<116, 115>>
    [] part = "json" -> <<106, 115, 111, 110>>

RECURSIVE JoinUnits(_, _, _)
JoinUnits(pieces, separator, i) ==
  IF i > Len(pieces) THEN << >>
  ELSE IF i = Len(pieces) THEN pieces[i]
  ELSE pieces[i] \o <<separator>> \o JoinUnits(pieces, separator, i + 1)

\* The code units of a string: parts joined with "." (46), segments with "/" (47).
Units(str) ==
  JoinUnits([k \in 1..Len(str) |->
               JoinUnits([j \in 1..Len(str[k]) |-> CodeUnits(str[k][j])], 46, 1)], 47, 1)

RECURSIVE UnitsLess(_, _, _)
UnitsLess(u, v, i) ==
  IF i > Len(v) THEN FALSE
  ELSE IF i > Len(u) THEN TRUE
  ELSE IF u[i] # v[i] THEN u[i] < v[i]
  ELSE UnitsLess(u, v, i + 1)

StringLess(x, y) == UnitsLess(Units(x), Units(y), 1)

\* Array.prototype.sort() without a comparator
JsSort(array) == SortSeq(array, StringLess)

(***************************************************************************)
(* Graph queries and command handlers of the Searcher class.               *)
(***************************************************************************)
\* Searcher.findModules on what the glob matcher returned
findModules(globbed) == SelectSeq(globbed, IsModuleFile)

\* listDependants following the imports of every module.
listDependantsFollowing == TRUE

\* The follow argument listDependants passes to getImports.
listDependantsFollow == FALSE

\* The handler of ls-dependencies up to the loop of getAllImports.
LsDependencies(globbed, follow) ==
  /\ pc = "idle"
  /\ cmd' = [name |-> "ls-dependencies", impl |-> "Searcher", follow |-> follow,
             file |-> Undefined, modules |-> findModules(globbed)]
  /\ fileIdx' = 1
  /\ pc' = "running"
  /\ UNCHANGED <<diskVars, cacheVars, calls, stack, imports, importPaths, dependants,
                 parsed, stdout, stderr>>

\* The handler of ls-dependants up to the loop of listDependants.
LsDependants(file, globbed) ==
  /\ pc = "idle"
  /\ cmd' = [name |-> "ls-dependants", impl |-> "Searcher", follow |-> listDependantsFollow,
             file |-> file, modules |-> findModules(globbed)]
  /\ fileIdx' = 1
  /\ pc' = "running"
  /\ UNCHANGED <<diskVars, cacheVars, calls, stack, imports, importPaths, dependants,
                 parsed, stdout, stderr>>

\* The loop of the query calls getImports on its next module, with a new Set.
CallGetImports ==
  /\ pc = "running"
  /\ stack = << >>
  /\ fileIdx <= Len(cmd.modules)
  /\ imports' = << >>
  /\ GetImportsEnter(cmd.modules[fileIdx], << >>, << >>, "returned")
  /\ UNCHANGED <<diskVars, cacheVars, calls, cmd, fileIdx, importPaths, dependants, stdout>>

\* The Set replaced by the elements instead of extended with them.
AddAllReplacing(set, elements, i) == elements

RECURSIVE AddAll(_, _, _)
AddAll(set, elements, i) ==
  IF i > Len(elements) THEN set
  ELSE AddAll(SetAdd(set, elements[i]), elements, i + 1)

\* getAllImports adds what getImports returned to importPaths.
GetAllImportsAdd ==
  /\ pc = "returned"
  /\ cmd.name = "ls-dependencies"
  /\ importPaths' = AddAll(importPaths, imports, 1)
  /\ fileIdx' = fileIdx + 1
  /\ pc' = "running"
  /\ UNCHANGED <<diskVars, cacheVars, calls, cmd, stack, imports, dependants, parsed,
                 stdout, stderr>>

\* listDependants keeps the module when what getImports returned has the file.
ListDependantsPush ==
  /\ pc = "returned"
  /\ cmd.name = "ls-dependants"
  /\ dependants' = IF InSeq(cmd.file, imports)
                   THEN Append(dependants, cmd.modules[fileIdx])
                   ELSE dependants
  /\ fileIdx' = fileIdx + 1
  /\ pc' = "running"
  /\ UNCHANGED <<diskVars, cacheVars, calls, cmd, stack, imports, importPaths, parsed,
                 stdout, stderr>>

\* listDependencies returned: the handler prints every dependency.
PrintDependencies ==
  /\ pc = "running"
  /\ stack = << >>
  /\ fileIdx > Len(cmd.modules)
  /\ cmd.name = "ls-dependencies"
  /\ stdout' = stdout \o importPaths
  /\ pc' = "done"
  /\ UNCHANGED <<diskVars, cacheVars, calls, cmd, fileIdx, stack, imports, importPaths,
                 dependants, parsed, stderr>>

\* listDependants returned: the handler prints every dependant.
PrintDependants ==
  /\ pc = "running"
  /\ stack = << >>
  /\ fileIdx > Len(cmd.modules)
  /\ cmd.name = "ls-dependants"
  /\ stdout' = stdout \o dependants
  /\ pc' = "done"
  /\ UNCHANGED <<diskVars, cacheVars, calls, cmd, fileIdx, stack, imports, importPaths,
                 dependants, parsed, stderr>>

(***************************************************************************)
(* The earlier snapshot index.js: getImports does not follow, and its      *)
(* command handlers sort; each handler is one step.                        *)
(***************************************************************************)
\* The traversal of index.js getImports from the i-th node on.  threw is
\* TRUE when a visitor throws: ImportExpression reads source.value of a
\* source that is neither a template nor a string literal and hands
\* undefined to resolveImportPath, whose importPath.startsWith fails.
RECURSIVE IndexTraverseFrom(_, _, _, _, _)
IndexTraverseFrom(st0, filename, nodes, i, set0) ==
  CHOOSE out \in {
    IF i > Len(nodes) THEN [threw |-> FALSE, imports |-> set, st |-> st]
    ELSE LET node == nodes[i]
             skip == IF node.type = "ImportExpression"
                     THEN node.sourceType = "null" \/ node.sourceType = "TemplateLiteral"
                     ELSE NoSourceValue(node)
         IN IF skip THEN IndexTraverseFrom(st, filename, nodes, i + 1, set)
            ELSE IF node.value = Undefined THEN [threw |-> TRUE, imports |-> set, st |-> st]
            ELSE CHOOSE next \in {
                   IndexTraverseFrom(r.st, filename, nodes, i + 1,
                                     IF r.result # Undefined THEN SetAdd(set, r.result) ELSE set)
                   : r \in {resolveImportPath(st, filename, node.value)} } : TRUE
    : st \in {st0}, set \in {set0} } : TRUE

IndexGetImports(st, filename) ==
  IF ~Parses(filename) THEN [threw |-> TRUE, imports |-> << >>, st |-> st]
  ELSE IndexTraverseFrom(st, filename, text[filename].nodes, 1, << >>)

\* index.js getAllImports from the i-th file on; failed is the file whose
\* getImports threw, Undefined when none did.
RECURSIVE IndexGetAllImportsFrom(_, _, _, _)
IndexGetAllImportsFrom(st, filenames, i, set0) ==
  IF i > Len(filenames) THEN [failed |-> Undefined, out |-> set0, st |-> st]
  ELSE CHOOSE out \in {
         IF r.threw THEN [failed |-> filenames[i], out |-> set, st |-> r.st]
         ELSE IndexGetAllImportsFrom(r.st, filenames, i + 1, AddAll(set, r.imports, 1))
         : r \in {IndexGetImports(st, filenames[i])}, set \in {set0} } : TRUE

\* The loop of the ls-dependants handler of index.js from the i-th file on;
\* out is what it has printed.
RECURSIVE IndexDependantsFrom(_, _, _, _, _)
IndexDependantsFrom(st, file, filenames, i, printed0) ==
  IF i > Len(filenames) THEN [failed |-> Undefined, out |-> printed0, st |-> st]
  ELSE CHOOSE out \in {
         IF r.threw THEN [failed |-> filenames[i], out |-> printed, st |-> r.st]
         ELSE IndexDependantsFrom(r.st, file, filenames, i + 1,
                                  IF InSeq(file, r.imports)
                                  THEN Append(printed, filenames[i]) ELSE printed)
         : r \in {IndexGetImports(st, filenames[i])}, printed \in {printed0} } : TRUE

\* What a handler of index.js leaves behind.
IndexHandlerEnds(r, printed) ==
  /\ filecache' = r.st.cache
  /\ statCalls' = r.st.stats
  /\ stdout' = stdout \o printed
  /\ stderr' = IF r.failed # Undefined THEN Append(stderr, ParseError(r.failed)) ELSE stderr
  /\ pc' = IF r.failed # Undefined THEN "failed" ELSE "done"

\* The ls-dependencies handler of index.js.
IndexLsDependencies(globbed) ==
  /\ pc = "idle"
  /\ \E allFilenames \in {findModules(globbed)} :
     \E r \in {IndexGetAllImportsFrom(CacheState, allFilenames, 1, << >>)} :
        /\ cmd' = [name |-> "ls-dependencies", impl |-> "index.js", follow |-> FALSE,
                   file |-> Undefined, modules |-> allFilenames]
        /\ importPaths' = r.out
        /\ IndexHandlerEnds(r, IF r.failed # Undefined THEN << >> ELSE JsSort(r.out))
  /\ UNCHANGED <<diskVars, calls, fileIdx, stack, imports, dependants, parsed>>

\* The ls-dependants handler of index.js.
IndexLsDependants(file, globbed) ==
  /\ pc = "idle"
  /\ \E allFilenames \in {findModules(globbed)} :
     \E r \in {IndexDependantsFrom(CacheState, file, JsSort(allFilenames), 1, << >>)} :
        /\ cmd' = [name |-> "ls-dependants", impl |-> "index.js", follow |-> FALSE,
                   file |-> file, modules |-> allFilenames]
        /\ dependants' = r.out
        /\ IndexHandlerEnds(r, r.out)
  /\ UNCHANGED <<diskVars, calls, fileIdx, stack, imports, importPaths, parsed>>

(***************************************************************************)
(* Query specification: one command runs over a source tree that does not  *)
(* change.  The tree has four modules and a data file; every module has    *)
(* one of a few source texts.                                              *)
(***************************************************************************)
App == << <<"app">> >>
ModA == App \o << <<"a", "js">> >>
ModB == App \o << <<"b", "js">> >>
ModC == App \o << <<"c", "ts">> >>
ModD == App \o << <<"index", "js">> >>
DataE == App \o << <<"e", "json">> >>
QueryFiles == { ModA, ModB, ModC, ModD, DataE }
QueryModules == { f \in QueryFiles : IsModuleFile(f) }

Here(name) == << DotSeg, <<name>> >>

TextsA == {
  \* import "./b"; import "./c";
  Source(<< Literal("ImportDeclaration", Here("b")), Literal("ImportDeclaration", Here("c")) >>),
  \* import "b";
  Source(<< Literal("ImportDeclaration", << <<"b">> >>) >>),
  \* import(name); import "react"; import ""; export { x }; export { y } from "./e.json";
  \* import(`./b`);
  Source(<< Node("ImportExpression", "Identifier", Undefined),
            Literal("ImportDeclaration", << <<"react">> >>),
            Literal("ImportDeclaration", <<EmptySeg>>),
            Node("ExportNamedDeclaration", "null", Undefined),
            Literal("ExportNamedDeclaration", << DotSeg, <<"e", "json">> >>),
            Node("ImportExpression", "TemplateLiteral", Undefined) >>) }

TextsB == {
  \* import ".";
  Source(<< Literal("ImportDeclaration", <<DotSeg>>) >>),
  \* export * from "a";
  Source(<< Literal("ExportAllDeclaration", << <<"a">> >>) >>),
  \* import "./b";
  Source(<< Literal("ImportDeclaration", Here("b")) >>),
  Malformed }

TextsC == {
  \* export { x } from "./index";
  Source(<< Literal("ExportNamedDeclaration", Here("index")) >>),
  \* import("../app/a");
  Source(<< Literal("ImportExpression", << DotDotSeg, <<"app">>, <<"a">> >>) >>),
  Source(<< >>) }

TextsD == {
  Source(<< >>),
  \* import("");
  Source(<< Literal("ImportExpression", <<EmptySeg>>) >>),
  \* import "./a"; export * from "./e";
  Source(<< Literal("ImportDeclaration", Here("a")), Literal("ExportAllDeclaration", Here("e")) >>) }

\* What the glob matcher may return: files of the tree, each once, in any order.
RECURSIVE DistinctSeqs(_, _)
DistinctSeqs(S, n) ==
  IF n = 0 THEN { << >> }
  ELSE LET shorter == DistinctSeqs(S, n - 1) IN
       shorter \cup { Append(q, x) : q \in shorter, x \in S }

Globbed == { q \in DistinctSeqs(QueryFiles, MaxGlob) :
               \A i \in 1..Len(q), j \in 1..Len(q) : i # j => q[i] # q[j] }

\* The <file> argument of ls-dependants: a module as the resolver names it,
\* and the same module written "./app/a.js".
DependantsArguments == { ModA, ModB, <<DotSeg>> \o ModA }

InitQuery ==
  /\ files = QueryFiles
  /\ denied = {}
  /\ \E a \in TextsA, b \in TextsB, c \in TextsC, d \in TextsD :
       text = [f \in QueryModules |->
                 IF f = ModA THEN a ELSE IF f = ModB THEN b ELSE IF f = ModC THEN c ELSE d]
  /\ filecache = EmptyMap
  /\ statCalls = EmptyMap
  /\ calls = << >>
  /\ pc = "idle"
  /\ cmd = NoCommand
  /\ fileIdx = 0
  /\ stack = << >>
  /\ imports = << >>
  /\ importPaths = << >>
  /\ dependants = << >>
  /\ parsed = << >>
  /\ stdout = << >>
  /\ stderr = << >>

NextQuery ==
  \/ \E globbed \in Globbed, follow \in BOOLEAN : LsDependencies(globbed, follow)
  \/ \E globbed \in Globbed, file \in DependantsArguments : LsDependants(file, globbed)
  \/ \E globbed \in Globbed : IndexLsDependencies(globbed)
  \/ \E globbed \in Globbed, file \in DependantsArguments : IndexLsDependants(file, globbed)
  \/ CallGetImports
  \/ ImportDeclaration
  \/ ImportExpression
  \/ ExportNamedDeclaration
  \/ ExportAllDeclaration
  \/ GetImportsReturn
  \/ GetImportsCatch
  \/ Abort
  \/ GetAllImportsAdd
  \/ ListDependantsPush
  \/ PrintDependencies
  \/ PrintDependants

SpecQuery == InitQuery /\ [][NextQuery]_vars

\* Follow specification: one followed ls-dependencies over a single module.
\* The process is single-threaded and runs every call to completion, so a
\* step that can be taken is taken: weak fairness of the next-state relation.
NextFollow ==
  \/ \E file \in QueryFiles : LsDependencies(<<file>>, TRUE)
  \/ CallGetImports
  \/ ImportDeclaration
  \/ ImportExpression
  \/ ExportNamedDeclaration
  \/ ExportAllDeclaration
  \/ GetImportsReturn
  \/ GetImportsCatch
  \/ Abort
  \/ GetAllImportsAdd
  \/ PrintDependencies

SpecFollow == InitQuery /\ [][NextFollow]_vars /\ WF_vars(NextFollow)

(***************************************************************************)
(* Claims about the import extractor and the graph queries (checked under  *)
(* SpecQuery, termination under SpecFollow)    .                            *)
(***************************************************************************)
FreshCache == [cache |-> EmptyMap, stats |-> EmptyMap]
Resolve(file, specifier) == resolveImportPath(FreshCache, file, specifier).result

NodesOf(file) ==
  IF file \in DOMAIN text /\ text[file].ok THEN SeqRange(text[file].nodes) ELSE {}

\* The stated direct import set of a file: what every string-literal
\* specifier of the file resolves to.
StatedDirectImports(file) ==
  { Resolve(file, n.value) : n \in { m \in NodesOf(file) : m.sourceType = "StringLiteral" } }
    \ {Undefined}

\* The same set without the empty specifiers of static imports and
\* re-exports.
DirectImports(file) ==
  { Resolve(file, n.value) :
      n \in { m \in NodesOf(file) :
                /\ m.sourceType = "StringLiteral"
                /\ (m.type = "ImportExpression" \/ m.value # <<EmptySeg>>) } }
    \ {Undefined}

DirectOfAll(S) == UNION { DirectImports(f) : f \in S }

\* The files reachable from a file of S by one or more import edges.
RECURSIVE ReachableClosure(_)
ReachableClosure(R) ==
  LET more == R \cup DirectOfAll(R) IN
  IF more = R THEN R ELSE ReachableClosure(more)

Reachable(S) == ReachableClosure(DirectOfAll(S))

NoDuplicates(s) == \A i \in 1..Len(s), j \in 1..Len(s) : i # j => s[i] # s[j]

IsSorted(s) == \A i \in 1..Len(s), j \in 1..Len(s) : i < j => ~StringLess(s[j], s[i])

CurrentModule == cmd.modules[fileIdx]

\* C3: listDependencies with follow returns exactly the files reachable from
\* a file of the file set by one or more resolved import edges, and without
\* follow exactly the union of the direct import sets of the files.
C3_Dependencies ==
  (pc = "done" /\ cmd.name = "ls-dependencies" /\ cmd.impl = "Searcher") =>
    /\ SeqRange(importPaths) = IF cmd.follow THEN Reachable(SeqRange(cmd.modules))
                               ELSE DirectOfAll(SeqRange(cmd.modules))
    /\ NoDuplicates(importPaths)
    /\ SeqRange(stdout) = SeqRange(importPaths)

\* A followed query from the top of a diamond a -> b, a -> c, b -> index,
\* c -> index has returned its three dependencies.
C3_Witness ==
  /\ pc = "done" /\ cmd.name = "ls-dependencies" /\ cmd.impl = "Searcher" /\ cmd.follow
  /\ cmd.modules = <<ModA>>
  /\ DirectImports(ModA) = {ModB, ModC}
  /\ DirectImports(ModB) = {ModD}
  /\ DirectImports(ModC) = {ModD}
  /\ DirectImports(ModD) = {}
  /\ SeqRange(importPaths) = {ModB, ModC, ModD}

FollowRunning == pc \in {"running", "returned", "throwing"} /\ cmd.follow
Ended == pc \in {"done", "failed"}

\* C4: with follow, extraction ends on every finite import graph, with
\* import cycles too: the recursive traversal eventually returns, and the
\* nesting of its calls stays below the bound of the model.
C4_Terminates == [](Len(stack) < MaxDepth) /\ (FollowRunning ~> Ended)

\* A followed query has ended on a graph in which a module of the file set
\* imports itself through a cycle.
C4_Witness ==
  /\ pc = "done" /\ cmd.follow
  /\ \E f \in SeqRange(cmd.modules) : f \in Reachable({f}) /\ f \notin DirectImports(f)

\* C5: in follow mode, within one traversal, no file is read and parsed more
\* than once, the starting file reached again through a cycle included.
C5_ParsedOnce == cmd.follow => NoDuplicates(parsed)

\* C7 as stated: the direct import set returned by getImports is what the
\* string-literal specifiers of the file resolve to, without the
\* unresolvable ones.
C7_StatedDirectSet ==
  (pc = "returned" /\ ~cmd.follow) => SeqRange(imports) = StatedDirectImports(CurrentModule)

\* C7: the direct import set returned by getImports is exactly what the
\* string-literal specifiers of the file resolve to, apart from the empty
\* specifiers of static imports and re-exports; unresolvable specifiers and
\* non-literal dynamic imports add nothing and do not abort the extraction,
\* and every element is a path the existence cache reported as a file.
C7_DirectSet ==
  (pc = "returned" /\ ~cmd.follow) =>
    /\ SeqRange(imports) = DirectImports(CurrentModule)
    /\ NoDuplicates(imports)
    /\ \A p \in SeqRange(imports) : p \in DOMAIN filecache /\ filecache[p]

\* getImports returned a non-empty set for a file that also has a dynamic
\* import of a variable and a specifier that resolves to nothing.
C7_Witness ==
  /\ pc = "returned" /\ ~cmd.follow
  /\ \E n \in NodesOf(CurrentModule) : n.type = "ImportExpression" /\ n.sourceType = "Identifier"
  /\ \E n \in NodesOf(CurrentModule) :
       n.sourceType = "StringLiteral" /\ n.value # <<EmptySeg>>
         /\ Resolve(CurrentModule, n.value) = Undefined
  /\ imports # << >>

\* C8: listDependants returns exactly the files of the file set whose direct
\* import set contains the target, compared as strings; a file that reaches
\* the target only transitively is not included.
C8_Dependants ==
  (pc = "done" /\ cmd.name = "ls-dependants") =>
    /\ SeqRange(dependants) = { f \in SeqRange(cmd.modules) : cmd.file \in DirectImports(f) }
    /\ NoDuplicates(dependants)
    /\ SeqRange(stdout) = SeqRange(dependants)

\* listDependants returned one dependant and left out a module that reaches
\* the target only through another module.
C8_Witness ==
  /\ pc = "done" /\ cmd.name = "ls-dependants" /\ cmd.impl = "Searcher"
  /\ Len(dependants) = 1
  /\ \E g \in SeqRange(cmd.modules) :
       /\ ~InSeq(g, dependants)
       /\ cmd.file \in Reachable({g})

\* C9: the lines printed by ls-dependencies and ls-dependants are in
\* ascending lexicographic order, whatever the order of the glob matcher and
\* of discovery.
C9_SortedOutput == pc = "done" => IsSorted(stdout)

\* C10: when a file cannot be read or parsed the query aborts and no result
\* line has been printed before the failure.
C10_NoOutputOnFailure == pc \in {"throwing", "failed"} => stdout = << >>

\* The files named by the parse diagnostics printed so far, in order.
ReportedFiles ==
  SelectSeq([i \in DOMAIN stderr |-> stderr[i]],
            LAMBDA line : line.kind = "Error while parsing")

\* C11: when a run fails on a malformed file, that is when the first parse
\* diagnostic names a file that cannot be read or parsed, every file
\* reported as having failed to parse is such a file: with follow, no file
\* of the import chain that leads to the malformed file is reported.
C11_OnlyOffendingReported ==
  (ReportedFiles # << >> /\ ~Parses(ReportedFiles[1].filename)) =>
    \A i \in DOMAIN ReportedFiles : ~Parses(ReportedFiles[i].filename)

\* No file outside the module extensions has been read, is being traversed
\* or has been reported as failing to parse, and a followed ls-dependencies
\* ends with every such file that a start file reaches in its result.
C12_NeverParsed ==
  /\ \A i \in DOMAIN parsed : IsModuleFile(parsed[i])
  /\ \A i \in DOMAIN stack : IsModuleFile(stack[i].filename)
  /\ \A i \in DOMAIN ReportedFiles : IsModuleFile(ReportedFiles[i].filename)
  /\ (pc = "done" /\ cmd.name = "ls-dependencies" /\ cmd.impl = "Searcher" /\ cmd.follow) =>
       \A f \in Reachable(SeqRange(cmd.modules)) : ~IsModuleFile(f) => InSeq(f, importPaths)

\* A visitor of a followed traversal added a path that is not a module file
\* and called getImports on it: the call gives back the accumulator as it
\* was handed over, reads nothing, reports nothing, and the visitor goes on.
C12_CallReturnsAccumulator ==
  (cmd.follow /\ Len(imports') = Len(imports) + 1 /\ ~IsModuleFile(Last(imports'))) =>
    /\ imports' = Append(imports, Last(imports'))
    /\ stack' = Advanced
    /\ parsed' = parsed
    /\ stderr' = stderr
    /\ pc' = pc

\* C12: getImports called on a file whose extension is not .js, .jsx, .ts or
\* .tsx returns the accumulator with the elements it had on entry and never
\* reads or parses the file; with follow, a path resolved to such a file is
\* in the dependency set, is never expanded and never fails to parse.
C12_NonModuleNotExpanded == []C12_NeverParsed /\ [][C12_CallReturnsAccumulator]_vars

\* A followed ls-dependencies ended with the .json file in its result, found
\* by a module that was read, and the .json file was not read.
C12_Witness ==
  /\ pc = "done" /\ cmd.name = "ls-dependencies" /\ cmd.impl = "Searcher" /\ cmd.follow
  /\ InSeq(DataE, importPaths)
  /\ ~InSeq(DataE, parsed)
  /\ parsed # << >>

====
